---------------------------- MODULE Spec2Model ----------------------------
(***************************************************************************)
(* A model of minimime (src/src/lib.rs): the Info record and its parser,   *)
(* the Db with its two indices and three lookups, and the process-wide     *)
(* OnceLock<Mutex<Db>> singleton behind the free lookup functions.         *)
(*                                                                         *)
(* A Rust String is a sequence of one-character strings; Option<T> is a    *)
(* sequence of length 0 (None) or 1 (Some); a HashMap is a function whose  *)
(* domain is its key set.                                                  *)
(***************************************************************************)
EXTENDS Integers, Sequences, FiniteSets, TLC

VARIABLES
    \* --- Info::new / Info::is_binary called on their own ---
    ipc,                \* position of the caller: "start", "parsed", "built", "classified"
    line,               \* the &str handed to Info::new
    info,               \* Option<Info>: result of Info::new, or a struct literal
    binary,             \* Option<bool>: result of is_binary
    \* --- the two embedded data files, as db_content.lines() yields them ---
    ext_mime,           \* include_str!("db/ext_mime.db").lines()
    content_type_mime,  \* include_str!("db/content_type_mime.db").lines()
    \* --- a Db owned by one caller ---
    db,                 \* Option<Db>
    call,               \* the last method called on db and its argument
    ret,                \* Option<Info> it returned
    \* --- the global singleton and the threads calling the free functions ---
    once,               \* state of the OnceLock: "incomplete", "running", "complete"
    cell,               \* the OnceLock's slot: Option<Db> (the Db inside the Mutex)
    building,           \* the `db` local of Db::new while the initializer runs it
    loaded,             \* how many lines of the current data file the initializer has read
    inits,              \* how many times the get_or_init closure has been entered
    mutex,              \* owner of the Mutex: 0 when unlocked, else the thread
    pc,                 \* per thread: position in the free function
    req,                \* per thread: the free function called and its argument
    res                 \* per thread: Option<Info> being returned

infoVars == <<ipc, line, info, binary>>
dataVars == <<ext_mime, content_type_mime>>
dbVars   == <<db, call, ret>>
globVars == <<once, cell, building, loaded, inits, mutex, pc, req, res>>
vars     == <<ipc, line, info, binary, ext_mime, content_type_mime, db, call, ret,
              once, cell, building, loaded, inits, mutex, pc, req, res>>

----------------------------------------------------------------------------
(* Option<T> *)
None == <<>>
Some(x) == <<x>>
IsSome(o) == Len(o) = 1
Unwrap(o) == o[1]

(* All strings over alphabet A of length at most n. *)
Strs(A, n) == UNION {[1..k -> A] : k \in 0..n}

----------------------------------------------------------------------------
(* char::is_whitespace, on the characters the model uses. *)
IsWhitespace(c) == c \in {" ", "\t", "\n", "\r"}

(* str::split_whitespace().collect(): scan left to right, cutting a token   *)
(* at every whitespace character and dropping empty tokens.                 *)
RECURSIVE SplitFrom(_, _, _, _)
SplitFrom(s, i, cur, acc) ==
    IF i > Len(s)
    THEN IF cur = <<>> THEN acc ELSE Append(acc, cur)
    ELSE IF IsWhitespace(s[i])
         THEN SplitFrom(s, i + 1, <<>>, IF cur = <<>> THEN acc ELSE Append(acc, cur))
         ELSE SplitFrom(s, i + 1, Append(cur, s[i]), acc)

split_whitespace(s) == SplitFrom(s, 1, <<>>, <<>>)

(* The number of parts a line needs (parts.len() >= 3). *)
MinParts == 3

(* Info::new with the first two fields taken in the wrong order. *)
Info_new_swapped(l) ==
    LET parts == split_whitespace(l)
    IN  IF Len(parts) >= MinParts
        THEN Some([extension |-> parts[2], content_type |-> parts[1], encoding |-> parts[3]])
        ELSE None

(* Info::new *)
Info_new(l) ==
    LET parts == split_whitespace(l)
    IN  IF Len(parts) >= MinParts
        THEN Some([extension |-> parts[1], content_type |-> parts[2], encoding |-> parts[3]])
        ELSE None

(* Info::BINARY_ENCODINGS = &["base64", "8bit"] *)
BINARY_ENCODINGS == << <<"b", "a", "s", "e", "6", "4">>, <<"8", "b", "i", "t">> >>

(* u8::to_ascii_lowercase on the letters the model uses. *)
AsciiLower(c) ==
    CASE c = "B" -> "b" [] c = "A" -> "a" [] c = "S" -> "s" [] c = "E" -> "e"
      [] c = "I" -> "i" [] c = "T" -> "t" [] c = "Z" -> "z" [] OTHER -> c

(* is_binary comparing with eq_ignore_ascii_case instead of ==. *)
is_binary_ignore_case(self) ==
    \E i \in 1..Len(BINARY_ENCODINGS) :
        /\ Len(BINARY_ENCODINGS[i]) = Len(self.encoding)
        /\ \A k \in 1..Len(self.encoding) :
               AsciiLower(self.encoding[k]) = BINARY_ENCODINGS[i][k]

(* Info::is_binary: slice::contains, element by element with ==. *)
is_binary(self) ==
    \E i \in 1..Len(BINARY_ENCODINGS) : BINARY_ENCODINGS[i] = self.encoding


----------------------------------------------------------------------------
(* Inputs of Info::new and of Info struct literals.                        *)

MaxLineLen == 7
MaxEncLen == 4

LineChars == {" ", "\t", "a", "b"}
EncChars == {"8", "b", "i", "t", "T"}

base64 == <<"b", "a", "s", "e", "6", "4">>
bit8 == <<"8", "b", "i", "t">>
bit7 == <<"7", "b", "i", "t">>
quoted_printable ==
    <<"q", "u", "o", "t", "e", "d", "-", "p", "r", "i", "n", "t", "a", "b", "l", "e">>
BASE64 == <<"B", "A", "S", "E", "6", "4">>

EncodingSamples ==
    {base64, bit8, bit7, quoted_printable, BASE64,
     <<"B", "a", "s", "e", "6", "4">>, <<"8", "B", "I", "T">>,
     <<"b", "a", "s", "e", "6">>, base64 \o <<"4">>, bit8 \o base64}

(* Data-file lines carrying the sampled encodings as their third field. *)
SampleLines ==
    {<<"z">> \o sep \o <<"t", "/", "z">> \o sep \o e \o tail :
        sep \in {<<" ">>, <<"\t", " ">>}, e \in EncodingSamples,
        tail \in {<<>>, <<" ">>, <<" ", "x">>}}

Lines == Strs(LineChars, MaxLineLen) \cup SampleLines

(* What an Info struct literal may hold in its public encoding field. *)
Encodings ==
    Strs(EncChars, MaxEncLen) \cup EncodingSamples \cup {base64 \o <<" ">>, <<" ">> \o bit8}

NoInfoCaller == ipc = "off" /\ line = <<>> /\ info = None /\ binary = None
NoData == ext_mime = <<>> /\ content_type_mime = <<>>
NoDbCaller == db = None /\ call = <<>> /\ ret = None
NoThreads ==
    /\ once = "incomplete" /\ cell = None /\ building = None /\ loaded = 0
    /\ inits = 0 /\ mutex = 0 /\ pc = <<>> /\ req = <<>> /\ res = <<>>

InitInfo ==
    /\ ipc = "start" /\ line = <<>> /\ info = None /\ binary = None
    /\ NoData /\ NoDbCaller /\ NoThreads

(* let info = Info::new(l); *)
CallInfoNew ==
    /\ ipc = "start"
    /\ \E l \in Lines :
          /\ line' = l
          /\ info' = Info_new(l)
    /\ ipc' = "parsed"
    /\ UNCHANGED <<binary, dataVars, dbVars, globVars>>

(* let info = Info { extension, content_type, encoding }; the fields are pub *)
BuildInfo ==
    /\ ipc = "start"
    /\ \E x \in {<<"z">>, <<"Z", "z">>}, e \in Encodings :
          info' = Some([extension |-> x, content_type |-> <<"t", "/", "z">>, encoding |-> e])
    /\ ipc' = "built"
    /\ UNCHANGED <<line, binary, dataVars, dbVars, globVars>>

(* info.is_binary() *)
CallIsBinary ==
    /\ ipc \in {"parsed", "built"}
    /\ IsSome(info)
    /\ binary' = Some(is_binary(Unwrap(info)))
    /\ ipc' = "classified"
    /\ UNCHANGED <<line, info, dataVars, dbVars, globVars>>

NextInfo == CallInfoNew \/ BuildInfo \/ CallIsBinary

SpecInfo == InitInfo /\ [][NextInfo]_vars

----------------------------------------------------------------------------
(* The whitespace-delimited tokens of a line, by position: a token starts  *)
(* at a non-whitespace character that is first or follows whitespace, and  *)
(* runs up to the next whitespace character or the end of the line.        *)
TokenStarts(l) ==
    {i \in 1..Len(l) : ~IsWhitespace(l[i]) /\ (i = 1 \/ IsWhitespace(l[i - 1]))}

TokenEnd(l, i) ==
    CHOOSE j \in i..Len(l) :
        /\ \A k \in i..j : ~IsWhitespace(l[k])
        /\ (j = Len(l) \/ IsWhitespace(l[j + 1]))

Token(l, n) ==
    LET i == CHOOSE s \in TokenStarts(l) :
                 Cardinality({t \in TokenStarts(l) : t < s}) = n - 1
    IN  SubSeq(l, i, TokenEnd(l, i))

(* C4: Info::new(line) is Some exactly when the line has at least 3         *)
(* whitespace-delimited tokens, and then its extension, content_type and   *)
(* encoding are tokens 1, 2 and 3 of the line (runs of whitespace are one  *)
(* separator, further tokens are dropped); with fewer tokens it is None.   *)
C4_ParseTakesFirstThreeTokens ==
    ipc = "parsed" =>
        IF Cardinality(TokenStarts(line)) >= 3
        THEN info = Some([extension    |-> Token(line, 1),
                          content_type |-> Token(line, 2),
                          encoding     |-> Token(line, 3)])
        ELSE info = None

(* A parsed line of more than 3 tokens, separated somewhere by a run of    *)
(* two whitespace characters, whose first two tokens differ.               *)
C4_Witness ==
    /\ ipc = "parsed"
    /\ Cardinality(TokenStarts(line)) > 3
    /\ \E i \in 1..(Len(line) - 1) : IsWhitespace(line[i]) /\ IsWhitespace(line[i + 1])
    /\ IsSome(info)
    /\ Unwrap(info).extension # Unwrap(info).content_type

(* C7: is_binary() is true exactly when the encoding field is "base64" or   *)
(* "8bit", compared exactly (case-sensitive), whatever the other fields.   *)
C7_IsBinaryIffBase64Or8bit ==
    ipc = "classified" =>
        binary = Some(\/ Unwrap(info).encoding = <<"b", "a", "s", "e", "6", "4">>
                      \/ Unwrap(info).encoding = <<"8", "b", "i", "t">>)

(* An Info whose encoding is the upper-case spelling BASE64 was classified *)
(* as not binary.                                                          *)
C7_Witness ==
    /\ ipc = "classified"
    /\ Unwrap(info).encoding = <<"B", "A", "S", "E", "6", "4">>
    /\ binary = Some(FALSE)

----------------------------------------------------------------------------
(* HashMap<String, Info> *)
EmptyMap == [k \in {} |-> None]

(* HashMap::insert: the value replaces the one the key had. *)
Insert(m, k, v) == [x \in (DOMAIN m) \cup {k} |-> IF x = k THEN v ELSE m[x]]

(* HashMap::get *)
Get(m, k) == IF k \in DOMAIN m THEN Some(m[k]) ELSE None


(* The extension insert keeping the first record of a key                  *)
(* (entry(key).or_insert(info)) instead of replacing it.                   *)
ext_insert_line_keep_first(m, l) ==
    LET parsed == Info_new(l)
    IN  IF IsSome(parsed) /\ Unwrap(parsed).extension \notin DOMAIN m
        THEN Insert(m, Unwrap(parsed).extension, Unwrap(parsed))
        ELSE m

(* The body of the load loops: parse one line and, if it parses, insert    *)
(* the Info under the given field.                                         *)
ext_insert_line(m, l) ==
    LET parsed == Info_new(l)
    IN  IF IsSome(parsed) THEN Insert(m, Unwrap(parsed).extension, Unwrap(parsed)) ELSE m

content_type_insert_line(m, l) ==
    LET parsed == Info_new(l)
    IN  IF IsSome(parsed) THEN Insert(m, Unwrap(parsed).content_type, Unwrap(parsed)) ELSE m

(* for line in db_content.lines() { ... }, from line i on *)
RECURSIVE ExtLoop(_, _, _)
ExtLoop(m, data, i) ==
    IF i > Len(data) THEN m ELSE ExtLoop(ext_insert_line(m, data[i]), data, i + 1)

RECURSIVE ContentTypeLoop(_, _, _)
ContentTypeLoop(m, data, i) ==
    IF i > Len(data) THEN m
    ELSE ContentTypeLoop(content_type_insert_line(m, data[i]), data, i + 1)

(* Db::load_ext_db *)
load_ext_db(self, data) == [self EXCEPT !.ext_db = ExtLoop(self.ext_db, data, 1)]

(* Db::load_content_type_db *)
load_content_type_db(self, data) ==
    [self EXCEPT !.content_type_db = ContentTypeLoop(self.content_type_db, data, 1)]

(* Db { ext_db: HashMap::new(), content_type_db: HashMap::new() } *)
EmptyDb == [ext_db |-> EmptyMap, content_type_db |-> EmptyMap]

(* Db::new; neither load ever returns Err, so the result is always Ok. *)
Db_new(ext_data, content_type_data) ==
    load_content_type_db(load_ext_db(EmptyDb, ext_data), content_type_data)

(* char::to_lowercase on the letters the model uses (all ASCII, where      *)
(* str::to_lowercase maps character by character).                         *)
LowerChar(c) == IF c = "Z" THEN "z" ELSE IF c = "T" THEN "t" ELSE c

(* str::to_lowercase *)
to_lowercase(s) == [i \in 1..Len(s) |-> LowerChar(s[i])]

(* lookup_by_extension trying the lower-case spelling before the exact one. *)
Db_lookup_by_extension_lowercase_first(self, extension) ==
    LET lower == Get(self.ext_db, to_lowercase(extension))
    IN  IF IsSome(lower) THEN lower ELSE Get(self.ext_db, extension)

(* lookup_by_extension as one case-insensitive match: the exact key if     *)
(* there is one, else any key that equals the input when both are          *)
(* lower-cased.                                                            *)
Db_lookup_by_extension_any_case(self, extension) ==
    LET same == {k \in DOMAIN self.ext_db : to_lowercase(k) = to_lowercase(extension)}
    IN  IF extension \in same THEN Some(self.ext_db[extension])
        ELSE IF same # {} THEN Some(self.ext_db[CHOOSE k \in same : TRUE])
        ELSE None

(* Db::lookup_by_extension: get(extension).or_else(|| get(lowercase)) *)
Db_lookup_by_extension(self, extension) ==
    LET exact == Get(self.ext_db, extension)
    IN  IF IsSome(exact) THEN exact ELSE Get(self.ext_db, to_lowercase(extension))

(* lookup_by_content_type with the lower-case fallback of the extension    *)
(* lookup.                                                                 *)
Db_lookup_by_content_type_folded(self, content_type) ==
    LET exact == Get(self.content_type_db, content_type)
    IN  IF IsSome(exact) THEN exact
        ELSE Get(self.content_type_db, to_lowercase(content_type))

(* Db::lookup_by_content_type *)
Db_lookup_by_content_type(self, content_type) == Get(self.content_type_db, content_type)

(* Path::components on a Unix path: split at '/', skipping empty parts and *)
(* "." parts other than a leading one; a leading '/' is the root.          *)
RECURSIVE PartsFrom(_, _, _, _)
PartsFrom(s, i, cur, acc) ==
    IF i > Len(s)
    THEN Append(acc, cur)
    ELSE IF s[i] = "/"
         THEN PartsFrom(s, i + 1, <<>>, Append(acc, cur))
         ELSE PartsFrom(s, i + 1, Append(cur, s[i]), acc)

components(path) ==
    LET parts == PartsFrom(path, 1, <<>>, <<>>)
        has_root == Len(path) > 0 /\ path[1] = "/"
        kind(k) ==
            IF parts[k] = <<>> THEN "skip"
            ELSE IF parts[k] = <<".">>
                 THEN IF k = 1 /\ ~has_root THEN "CurDir" ELSE "skip"
                 ELSE IF parts[k] = <<".", ".">> THEN "ParentDir" ELSE "Normal"
        body == SelectSeq([k \in 1..Len(parts) |-> [kind |-> kind(k), name |-> parts[k]]],
                          LAMBDA c : c.kind # "skip")
    IN  IF has_root THEN <<[kind |-> "RootDir", name |-> <<"/">>]>> \o body ELSE body

(* Path::file_name: the last component, if it is a normal one. *)
file_name(path) ==
    LET cs == components(path)
    IN  IF Len(cs) > 0 /\ cs[Len(cs)].kind = "Normal" THEN Some(cs[Len(cs)].name) ELSE None

(* The index of the last '.' of a name, 0 if it has none. *)
LastDot(name) ==
    LET dots == {i \in 1..Len(name) : name[i] = "."}
    IN  IF dots = {} THEN 0 ELSE CHOOSE i \in dots : \A j \in dots : j <= i

(* std::path::rsplit_file_at_dot: (before, after) around the last '.';     *)
(* (file, None) for ".." and for a name whose only '.' is its first byte.  *)
rsplit_file_at_dot(file) ==
    LET d == LastDot(file)
        before == IF d = 0 THEN None ELSE Some(SubSeq(file, 1, d - 1))
        after == Some(SubSeq(file, d + 1, Len(file)))
    IN  IF file = <<".", ".">> THEN <<Some(file), None>>
        ELSE IF before = Some(<<>>) THEN <<Some(file), None>>
        ELSE <<before, after>>

(* Path::extension taking the part after the last '.' of any name that     *)
(* has one, dotfiles included.                                              *)
extension_of_dotfiles_too(path) ==
    LET f == file_name(path)
    IN  IF IsSome(f) /\ LastDot(Unwrap(f)) > 0
        THEN Some(SubSeq(Unwrap(f), LastDot(Unwrap(f)) + 1, Len(Unwrap(f))))
        ELSE None

(* Path::extension: file_name().map(rsplit_file_at_dot)                     *)
(*                  .and_then(|(before, after)| before.and(after))         *)
extension(path) ==
    LET f == file_name(path)
    IN  IF IsSome(f)
        THEN LET ba == rsplit_file_at_dot(Unwrap(f))
             IN  IF IsSome(ba[1]) THEN ba[2] ELSE None
        ELSE None

(* Db::lookup_by_filename; OsStr::to_str is always Some for a path made    *)
(* from a &str.                                                            *)
Db_lookup_by_filename(self, filename) ==
    LET ext == extension(filename)
    IN  IF IsSome(ext) THEN Db_lookup_by_extension(self, Unwrap(ext)) ELSE None

----------------------------------------------------------------------------
(* The data files and the arguments of the lookups.                        *)

MaxLines == 2
MaxNameLen == 3
MaxExtLen == 2
MaxContentTypeLen == 2

(* Lines of ext_mime.db: two spellings of one extension (standing for     *)
(* "zip" and "ZIP") with one content type, a second line for "z" (with     *)
(* runs of whitespace and a fourth field), and a short line.               *)
ExtLineLower == <<"z", " ", "t", " ">> \o bit8
ExtLineUpper == <<"Z", " ", "t", " ">> \o base64
ExtLineAgain == <<"z", " ", " ", "T", "\t">> \o bit7 \o <<" ", "x">>
ExtLineShort == <<"Z", " ", "t">>
ExtLines == {ExtLineLower, ExtLineUpper, ExtLineAgain, ExtLineShort}

(* Lines of content_type_mime.db: two extensions for content type "t", and *)
(* a short line.                                                           *)
ContentTypeLineLower == <<"z", " ", "t", " ">> \o bit8
ContentTypeLineUpper == <<"Z", " ", "t", " ">> \o base64
ContentTypeLineShort == <<"t", " ", "T">>
ContentTypeLines == {ContentTypeLineLower, ContentTypeLineUpper, ContentTypeLineShort}

FileChars == {"/", ".", "z", "Z"}
SampleNames ==
    {<<"z", ".", "z", "/">>, <<"z", ".", "Z", "/", ".">>, <<"z", ".", "z", "/", ".", ".">>,
     <<".", ".", "/", "z", ".", "Z">>, <<"z", ".", "z", "/", ".", "Z">>,
     <<"/", "z", "/", "z", ".", "z", ".", "Z">>}
FileNames == Strs(FileChars, MaxNameLen) \cup SampleNames
Extensions == Strs({"z", "Z", "."}, MaxExtLen)
ContentTypes == Strs({"t", "T", " "}, MaxContentTypeLen)

InitDb ==
    /\ ext_mime \in Strs(ExtLines, MaxLines)
    /\ content_type_mime \in Strs(ContentTypeLines, MaxLines)
    /\ db = None /\ call = <<>> /\ ret = None
    /\ NoInfoCaller /\ NoThreads

(* let db = Db::new()?; *)
CallDbNew ==
    /\ db = None
    /\ db' = Some(Db_new(ext_mime, content_type_mime))
    /\ UNCHANGED <<call, ret, infoVars, dataVars, globVars>>

(* db.lookup_by_extension(e) *)
CallLookupByExtension ==
    /\ IsSome(db) /\ call = <<>>
    /\ \E e \in Extensions :
          /\ call' = <<"lookup_by_extension", e>>
          /\ ret' = Db_lookup_by_extension(Unwrap(db), e)
    /\ UNCHANGED <<db, infoVars, dataVars, globVars>>

(* db.lookup_by_content_type(c) *)
CallLookupByContentType ==
    /\ IsSome(db) /\ call = <<>>
    /\ \E c \in ContentTypes :
          /\ call' = <<"lookup_by_content_type", c>>
          /\ ret' = Db_lookup_by_content_type(Unwrap(db), c)
    /\ UNCHANGED <<db, infoVars, dataVars, globVars>>

(* db.lookup_by_filename(f) *)
CallLookupByFilename ==
    /\ IsSome(db) /\ call = <<>>
    /\ \E f \in FileNames :
          /\ call' = <<"lookup_by_filename", f>>
          /\ ret' = Db_lookup_by_filename(Unwrap(db), f)
    /\ UNCHANGED <<db, infoVars, dataVars, globVars>>

(* The caller drops the returned reference. *)
DropResult ==
    /\ call # <<>>
    /\ call' = <<>> /\ ret' = None
    /\ UNCHANGED <<db, infoVars, dataVars, globVars>>

NextDb ==
    \/ CallDbNew
    \/ CallLookupByExtension
    \/ CallLookupByContentType
    \/ CallLookupByFilename
    \/ DropResult

SpecDb == InitDb /\ [][NextDb]_vars

----------------------------------------------------------------------------
(* The Info a data-file line of 3 or more tokens stands for, and the last  *)
(* such line of a data file whose n-th token is a given key (0 if none).   *)
WellFormed(l) == Cardinality(TokenStarts(l)) >= 3

RecordOf(l) ==
    [extension |-> Token(l, 1), content_type |-> Token(l, 2), encoding |-> Token(l, 3)]

LastLineFor(data, n, key) ==
    LET hits == {i \in 1..Len(data) : WellFormed(data[i]) /\ Token(data[i], n) = key}
    IN  IF hits = {} THEN 0 ELSE CHOOSE i \in hits : \A j \in hits : j <= i

KeysOf(data, n) == {Token(data[i], n) : i \in {j \in 1..Len(data) : WellFormed(data[j])}}

(* Both indices of d hold, for each key of their own data file, the record *)
(* of the last well-formed line with that key, and nothing else.           *)
HoldsLastLinePerKey(d) ==
    /\ DOMAIN d.ext_db = KeysOf(ext_mime, 1)
    /\ \A e \in DOMAIN d.ext_db :
           d.ext_db[e] = RecordOf(ext_mime[LastLineFor(ext_mime, 1, e)])
    /\ DOMAIN d.content_type_db = KeysOf(content_type_mime, 2)
    /\ \A c \in DOMAIN d.content_type_db :
           d.content_type_db[c] =
               RecordOf(content_type_mime[LastLineFor(content_type_mime, 2, c)])

(* C9: after Db::new the extension index maps each key e to the record of  *)
(* the LAST line of ext_mime.db with at least 3 tokens whose first token   *)
(* is e, and the content-type index maps each key c to the record of the   *)
(* LAST line of content_type_mime.db with at least 3 tokens whose second   *)
(* token is c; shorter lines add no entry, and each file fills only its    *)
(* own index. (Stated of the Db between calls: no lookup assigns to it.)   *)
C9_IndicesHoldLastLinePerKey ==
    (IsSome(db) /\ call = <<>>) => HoldsLastLinePerKey(Unwrap(db))

(* A Db built from an ext_mime.db with two different well-formed lines for *)
(* one extension and a content_type_mime.db that ends in a short line.     *)
C9_Witness ==
    /\ IsSome(db) /\ call = <<>>
    /\ \E i, j \in 1..Len(ext_mime) :
          /\ i < j /\ WellFormed(ext_mime[i]) /\ WellFormed(ext_mime[j])
          /\ Token(ext_mime[i], 1) = Token(ext_mime[j], 1)
          /\ RecordOf(ext_mime[i]) # RecordOf(ext_mime[j])
    /\ Len(content_type_mime) = 2
    /\ WellFormed(content_type_mime[1])
    /\ ~WellFormed(content_type_mime[2])
    /\ DOMAIN Unwrap(db).content_type_db # {}

C8_ContentTypeExactMatch ==
    (call # <<>> /\ call[1] = "lookup_by_content_type") =>
        LET idx == Unwrap(db).content_type_db
            c == call[2]
            last == LastLineFor(content_type_mime, 2, c)
        IN  /\ ret = IF c \in DOMAIN idx THEN Some(idx[c]) ELSE None
            /\ ret = IF last = 0 THEN None ELSE Some(RecordOf(content_type_mime[last]))

(* Two extensions map to content type "t" in the extension index, and the  *)
(* lookup of "t" returned the one record of the content-type file.         *)
C8_Witness ==
    /\ call = <<"lookup_by_content_type", <<"t">>>>
    /\ Cardinality({e \in DOMAIN Unwrap(db).ext_db :
                       Unwrap(db).ext_db[e].content_type = <<"t">>}) = 2
    /\ Len(content_type_mime) = 2
    /\ WellFormed(content_type_mime[1]) /\ WellFormed(content_type_mime[2])
    /\ ret = Some(RecordOf(content_type_mime[2]))
    /\ ret # Some(RecordOf(content_type_mime[1]))

(* The final path component of a filename: its last '/'-separated segment *)
(* that is neither empty nor ".", unless that segment is "..".             *)
SegmentStarts(f) == {i \in 1..Len(f) : f[i] # "/" /\ (i = 1 \/ f[i - 1] = "/")}

Segment(f, i) ==
    SubSeq(f, i, CHOOSE j \in i..Len(f) :
                     /\ \A k \in i..j : f[k] # "/"
                     /\ (j = Len(f) \/ f[j + 1] = "/"))

FinalComponent(f) ==
    LET named == {i \in SegmentStarts(f) : Segment(f, i) # <<".">>}
        last == CHOOSE i \in named : \A j \in named : j <= i
    IN  IF named = {} \/ Segment(f, last) = <<".", ".">> THEN None
        ELSE Some(Segment(f, last))

HasDot(c) == \E i \in 1..Len(c) : c[i] = "."
EndsInDot(c) == Len(c) > 0 /\ c[Len(c)] = "."
OnlyDotIsFirst(c) == HasDot(c) /\ \A i \in 1..Len(c) : c[i] = "." => i = 1
AfterLastDot(c) ==
    SubSeq(c, 1 + (CHOOSE i \in 1..Len(c) :
                       c[i] = "." /\ \A j \in (i + 1)..Len(c) : c[j] # "."), Len(c))

(* C3 as stated: lookup_by_filename(f) is None when the final component of *)
(* f has no '.' or ends in '.', and equals lookup_by_extension of the part *)
(* after its last '.' for every other final component, those whose only    *)
(* '.' is the first character included.                                    *)
C3_AsStated ==
    (call # <<>> /\ call[1] = "lookup_by_filename") =>
        LET c == FinalComponent(call[2])
        IN  ret = IF c = None \/ ~HasDot(Unwrap(c)) \/ EndsInDot(Unwrap(c)) THEN None
                  ELSE Db_lookup_by_extension(Unwrap(db), AfterLastDot(Unwrap(c)))

(* C3 amended: as stated, except that a final component whose only '.' is  *)
(* its first character has no extension either, and gives None.            *)
C3_FilenameLooksUpItsExtension ==
    (call # <<>> /\ call[1] = "lookup_by_filename") =>
        LET c == FinalComponent(call[2])
        IN  ret = IF \/ c = None
                     \/ ~HasDot(Unwrap(c))
                     \/ EndsInDot(Unwrap(c))
                     \/ OnlyDotIsFirst(Unwrap(c))
                  THEN None
                  ELSE Db_lookup_by_extension(Unwrap(db), AfterLastDot(Unwrap(c)))

(* A file name in a directory whose upper-case extension is not a key      *)
(* found the record of the lower-case key.                                 *)
C3_Witness ==
    /\ call = <<"lookup_by_filename", <<".", ".", "/", "z", ".", "Z">>>>
    /\ <<"Z">> \notin DOMAIN Unwrap(db).ext_db
    /\ <<"z">> \in DOMAIN Unwrap(db).ext_db
    /\ ret = Some(Unwrap(db).ext_db[<<"z">>])

----------------------------------------------------------------------------
(* The global DB: OnceLock<Mutex<Db>>, and threads calling the three free  *)
(* functions lookup_by_filename, lookup_by_extension and                   *)
(* lookup_by_content_type.                                                 *)

NumThreads == 2
Threads == 1..NumThreads

(* The calls a thread may make. *)
Requests ==
    {<<"lookup_by_filename", <<"z", ".", "Z">>>>,
     <<"lookup_by_filename", <<".", "z">>>>,
     <<"lookup_by_extension", <<"Z">>>>,
     <<"lookup_by_content_type", <<"t">>>>,
     <<"lookup_by_content_type", <<"T">>>>}

(* The body of a free function once it holds the guard: the Db method of   *)
(* the same name, cloned.                                                  *)
free_function_wrong_method(d, r) ==
    CASE r[1] = "lookup_by_filename" -> Db_lookup_by_extension(d, r[2])
      [] r[1] = "lookup_by_extension" -> Db_lookup_by_extension(d, r[2])
      [] r[1] = "lookup_by_content_type" -> Db_lookup_by_content_type(d, r[2])

free_function(d, r) ==
    CASE r[1] = "lookup_by_filename" -> Db_lookup_by_filename(d, r[2])
      [] r[1] = "lookup_by_extension" -> Db_lookup_by_extension(d, r[2])
      [] r[1] = "lookup_by_content_type" -> Db_lookup_by_content_type(d, r[2])

(* OnceLock::get_or_init's first test taking a running initialization for  *)
(* a finished one.                                                         *)
is_initialized_while_running == once # "incomplete"

(* OnceLock::is_initialized: the Once has completed. *)
is_initialized == once = "complete"

(* The guard forgotten instead of dropped: the mutex stays locked. *)
guard_forget(owner) == owner

(* MutexGuard::drop at the end of the free function: the mutex is          *)
(* unlocked.                                                               *)
guard_drop(owner) == 0

Init ==
    /\ ext_mime \in {<<ExtLineLower, ExtLineShort, ExtLineAgain>>,
                     <<ExtLineUpper, ExtLineAgain, ExtLineLower>>}
    /\ content_type_mime = <<ContentTypeLineLower, ContentTypeLineShort, ContentTypeLineUpper>>
    /\ once = "incomplete" /\ cell = None /\ building = None /\ loaded = 0
    /\ inits = 0 /\ mutex = 0
    /\ pc = [t \in Threads |-> "idle"]
    /\ req = [t \in Threads |-> <<>>]
    /\ res = [t \in Threads |-> None]
    /\ NoInfoCaller /\ NoDbCaller

(* A thread calls one of the free functions. *)
Call(t) ==
    /\ pc[t] = "idle"
    /\ \E r \in Requests : req' = [req EXCEPT ![t] = r]
    /\ pc' = [pc EXCEPT ![t] = "get_db"]
    /\ UNCHANGED <<once, cell, building, loaded, inits, mutex, res,
                   infoVars, dataVars, dbVars>>

(* get_db: DB.get_or_init finds the cell initialized. *)
GetDbInitialized(t) ==
    /\ pc[t] = "get_db"
    /\ is_initialized
    /\ pc' = [pc EXCEPT ![t] = "lock"]
    /\ UNCHANGED <<once, cell, building, loaded, inits, mutex, req, res,
                   infoVars, dataVars, dbVars>>

(* get_db: DB.get_or_init finds the Once incomplete and enters the closure *)
(* (Db::new starts from two empty maps). A thread that finds the Once      *)
(* running takes neither step: it waits in get_db until the Once is        *)
(* complete.                                                               *)
GetDbStartInit(t) ==
    /\ pc[t] = "get_db"
    /\ ~is_initialized
    /\ once = "incomplete"
    /\ once' = "running"
    /\ inits' = inits + 1
    /\ building' = Some(EmptyDb)
    /\ loaded' = 0
    /\ pc' = [pc EXCEPT ![t] = "load_ext_db"]
    /\ UNCHANGED <<cell, mutex, req, res, infoVars, dataVars, dbVars>>

(* load_ext_db: one turn of its loop. *)
LoadExtLine(t) ==
    /\ pc[t] = "load_ext_db"
    /\ loaded < Len(ext_mime)
    /\ building' = Some([Unwrap(building) EXCEPT
                            !.ext_db = ext_insert_line(@, ext_mime[loaded + 1])])
    /\ loaded' = loaded + 1
    /\ UNCHANGED <<once, cell, inits, mutex, pc, req, res, infoVars, dataVars, dbVars>>

(* load_ext_db returns Ok(()); load_content_type_db starts. *)
LoadExtDone(t) ==
    /\ pc[t] = "load_ext_db"
    /\ loaded = Len(ext_mime)
    /\ loaded' = 0
    /\ pc' = [pc EXCEPT ![t] = "load_content_type_db"]
    /\ UNCHANGED <<once, cell, building, inits, mutex, req, res,
                   infoVars, dataVars, dbVars>>

(* load_content_type_db: one turn of its loop. *)
LoadContentTypeLine(t) ==
    /\ pc[t] = "load_content_type_db"
    /\ loaded < Len(content_type_mime)
    /\ building' = Some([Unwrap(building) EXCEPT
                            !.content_type_db =
                                content_type_insert_line(@, content_type_mime[loaded + 1])])
    /\ loaded' = loaded + 1
    /\ UNCHANGED <<once, cell, inits, mutex, pc, req, res, infoVars, dataVars, dbVars>>

(* Db::new returns Ok(db); the closure wraps it in Mutex::new, the         *)
(* OnceLock stores it and completes, and get_db returns.                   *)
InitDone(t) ==
    /\ pc[t] = "load_content_type_db"
    /\ loaded = Len(content_type_mime)
    /\ cell' = building
    /\ building' = None
    /\ loaded' = 0
    /\ once' = "complete"
    /\ pc' = [pc EXCEPT ![t] = "lock"]
    /\ UNCHANGED <<inits, mutex, req, res, infoVars, dataVars, dbVars>>

(* get_db().lock().unwrap(): blocks while another thread holds the mutex.  *)
(* No thread panics holding it, so it is never poisoned.                   *)
Lock(t) ==
    /\ pc[t] = "lock"
    /\ mutex = 0
    /\ mutex' = t
    /\ pc' = [pc EXCEPT ![t] = "locked"]
    /\ UNCHANGED <<once, cell, building, loaded, inits, req, res,
                   infoVars, dataVars, dbVars>>

(* db.lookup_by_...(arg).cloned(), holding the guard. *)
Lookup(t) ==
    /\ pc[t] = "locked"
    /\ res' = [res EXCEPT ![t] = free_function(Unwrap(cell), req[t])]
    /\ pc' = [pc EXCEPT ![t] = "cloned"]
    /\ UNCHANGED <<once, cell, building, loaded, inits, mutex, req,
                   infoVars, dataVars, dbVars>>

(* The free function returns: the guard is dropped and the caller takes    *)
(* the clone.                                                              *)
Return(t) ==
    /\ pc[t] = "cloned"
    /\ mutex' = guard_drop(mutex)
    /\ pc' = [pc EXCEPT ![t] = "idle"]
    /\ req' = [req EXCEPT ![t] = <<>>]
    /\ res' = [res EXCEPT ![t] = None]
    /\ UNCHANGED <<once, cell, building, loaded, inits, infoVars, dataVars, dbVars>>

(* Everything thread t can do next. *)
ThreadStep(t) ==
    \/ Call(t)
    \/ GetDbInitialized(t)
    \/ GetDbStartInit(t)
    \/ LoadExtLine(t)
    \/ LoadExtDone(t)
    \/ LoadContentTypeLine(t)
    \/ InitDone(t)
    \/ Lock(t)
    \/ Lookup(t)
    \/ Return(t)

Next == \E t \in Threads : ThreadStep(t)

Spec == Init /\ [][Next]_vars


----------------------------------------------------------------------------
(* C5: under any interleaving of first calls the get_or_init closure is    *)
(* entered exactly once, and a thread that has passed get_db (is about to  *)
(* lock, holds the lock, or holds its result) finds the cell holding the   *)
(* completely loaded Db: never an empty or partly loaded index.            *)
C5_InitOnceAndLookupsSeeWholeDb ==
    /\ inits <= 1
    /\ \A t \in Threads :
          pc[t] \in {"lock", "locked", "cloned"} =>
              /\ inits = 1
              /\ once = "complete"
              /\ IsSome(cell)
              /\ HoldsLastLinePerKey(Unwrap(cell))
              /\ DOMAIN Unwrap(cell).ext_db # {}
              /\ DOMAIN Unwrap(cell).content_type_db # {}

(* A second thread made its first call while the initializer was part-way  *)
(* through the content-type file: it waits in get_db.                      *)
C5_Witness ==
    /\ once = "running" /\ inits = 1
    /\ pc[1] = "load_content_type_db" /\ loaded = 1
    /\ pc[2] = "get_db"
    /\ cell = None
    /\ DOMAIN Unwrap(building).content_type_db # {}

(* What a single thread owning a Db gets for a request. *)
SingleThreaded(r) ==
    LET d == Db_new(ext_mime, content_type_mime)
    IN  IF r[1] = "lookup_by_filename" THEN Db_lookup_by_filename(d, r[2])
        ELSE IF r[1] = "lookup_by_extension" THEN Db_lookup_by_extension(d, r[2])
        ELSE Db_lookup_by_content_type(d, r[2])

(* C6: no step changes the constructed Db, and every result a thread's     *)
(* lookup produces, in any interleaving, is the one a single thread gets   *)
(* for the same function and argument.                                     *)
C6_LookupsAgreeWithSingleThread ==
    [][/\ IsSome(cell) => cell' = cell
       /\ \A t \in Threads :
             pc'[t] = "cloned" => res'[t] = SingleThreaded(req'[t])]_vars

(* One thread holds the record it found while the other, asking for the    *)
(* same file name, waits for the lock.                                     *)
C6_Witness ==
    /\ pc[1] = "cloned" /\ pc[2] = "lock"
    /\ req[1] = <<"lookup_by_filename", <<"z", ".", "Z">>>>
    /\ req[2] = req[1]
    /\ IsSome(res[1])
    /\ Unwrap(res[1]).extension = <<"z">>

(* A thread is blocked when it is in one of the two calls that can wait    *)
(* (get_or_init and lock; every other step depends on the thread's own     *)
(* position alone) and cannot take a step.                                 *)
Blocked(t) == pc[t] \in {"get_db", "lock"} /\ ~ENABLED ThreadStep(t)

(* C10 as stated: once the Db is constructed, no thread is ever blocked.   *)
C10_AsStated == once = "complete" => \A t \in Threads : ~Blocked(t)

(* C10 amended: a thread is blocked only at the initialization barrier,    *)
(* before the Db is constructed and while another thread constructs it, or *)
(* at the mutex while another thread holds it; the thread holding the      *)
(* mutex is always inside its own lookup, past both calls that can wait.   *)
C10_BlockedOnlyByInitOrMutexHolder ==
    /\ mutex # 0 => pc[mutex] \in {"locked", "cloned"} /\ ~Blocked(mutex)
    /\ \A t \in Threads :
          Blocked(t) =>
              \/ /\ pc[t] = "get_db" /\ once = "running" /\ cell = None
                 /\ \E u \in Threads \ {t} :
                       pc[u] \in {"load_ext_db", "load_content_type_db"}
              \/ /\ pc[t] = "lock" /\ once = "complete"
                 /\ mutex \in Threads \ {t}

(* The Db is constructed, one thread holds the mutex and has its result,   *)
(* and the other cannot take the lock.                                     *)
C10_Witness ==
    /\ once = "complete"
    /\ mutex = 1 /\ pc[1] = "cloned"
    /\ pc[2] = "lock" /\ Blocked(2)

=============================================================================
